---- MODULE Spec2Model ----
(***************************************************************************)
(* Model of the covid19 command-line tool (src/main.go).                   *)
(*                                                                         *)
(* One process invocation runs exactly one command (main, cli.App.Run):    *)
(* fetch, the default summary, summary --country, chart --type bar|line.   *)
(* Every command but fetch first calls FetchData(false), which fills the   *)
(* three package-level variables AllValues, NameSortedCountries and        *)
(* ValueSortedCountries, and then answers its query from them.  The call   *)
(* is the same in the four commands and takes no argument of theirs, so    *)
(* it is one step (pc "start" to "fetched") and the rest of the command    *)
(* is the next (pc "fetched" to "done").                                   *)
(*                                                                         *)
(* Strings are sequences of byte values (country names) and are compared   *)
(* as Go compares strings, byte by byte.  A date string is used by the     *)
(* code only as a map key and as a label, so it is a day number; 1 is the  *)
(* oldest day.  The counts are small, so float64(count) is exact.          *)
(***************************************************************************)
EXTENDS Integers, Sequences, FiniteSets, TLC

\* ---------------------------------------------------------------- bounds
MaxDate == 2        \* days 1..MaxDate may occur in a series
MaxVal  == 1        \* confirmed, deaths, recovered range over 0..MaxVal
MaxMax  == 2        \* the --max flag ranges over 0..MaxMax

\* ----------------------------------------------------------------- names
\* "a", "aa", "b" and the reserved "all" (bytes a=1, l=2, b=3)
Names == {<<1>>, <<1, 1>>, <<3>>}
ALL   == <<1, 2, 2>>

Dates  == 1..MaxDate
Values == 0..MaxVal

VARIABLES
    raw,                    \* the response body of the GET
    pc,                     \* "start" | "fetched" | "done"
    cmd,                    \* the command that ran: [op, country, max]
    AllValues,              \* map country -> []DayItem
    NameSortedCountries,    \* []string
    ValueSortedCountries,   \* PairList
    err,                    \* what FetchData, then the command, returned; or "panic"
    tempFile,               \* content of the cache file, <<>> when not written
    summaryRows,            \* rows rendered by PrintSummary
    tableRows,              \* rows rendered by PrintCountry
    labels, cData, dData, rData,  \* bar chart: Labels and Data of the widgets
    plotData                \* line chart: plotChart.Data

vars == <<raw, pc, cmd, AllValues, NameSortedCountries, ValueSortedCountries,
          err, tempFile, summaryRows, tableRows, labels, cData, dData, rData,
          plotData>>

\* ------------------------------------------------------------ data types
DayItem(d, c, de, r) == [Date |-> d, Confirmed |-> c, Deaths |-> de, Recovered |-> r]

Pair(k, v) == [Key |-> k, Value |-> v]

EmptyMap == [c \in {} |-> <<>>]

Last(s) == s[Len(s)]

\* ------------------------------------------------------- library helpers
\* Go's string order: byte-wise, a proper prefix is smaller.
RECURSIVE StringLess(_, _)
StringLess(a, b) ==
    IF b = <<>> THEN FALSE
    ELSE IF a = <<>> THEN TRUE
    ELSE IF Head(a) # Head(b) THEN Head(a) < Head(b)
    ELSE StringLess(Tail(a), Tail(b))

\* sort.Strings on a short slice is an insertion sort: each element moves
\* left while it is smaller than its left neighbour.
RECURSIVE InsertString(_, _)
InsertString(s, x) ==
    IF s = <<>> THEN <<x>>
    ELSE IF StringLess(x, Last(s))
         THEN Append(InsertString(SubSeq(s, 1, Len(s) - 1), x), Last(s))
         ELSE Append(s, x)

RECURSIVE SortStrings(_)
SortStrings(s) ==
    IF s = <<>> THEN <<>>
    ELSE InsertString(SortStrings(SubSeq(s, 1, Len(s) - 1)), Last(s))

\* Faulty variant of Less: the comparison turned round (ascending by Value).
LessAscending(p, q) == p.Value < q.Value

\* PairList.Less: descending by Value.
Less(p, q) == p.Value > q.Value

\* sort.Sort(PairList) on a short slice: insertion sort driven by Less.
RECURSIVE InsertPair(_, _)
InsertPair(s, x) ==
    IF s = <<>> THEN <<x>>
    ELSE IF Less(x, Last(s))
         THEN Append(InsertPair(SubSeq(s, 1, Len(s) - 1), x), Last(s))
         ELSE Append(s, x)

RECURSIVE SortPairs(_)
SortPairs(p) ==
    IF p = <<>> THEN <<>>
    ELSE InsertPair(SortPairs(SubSeq(p, 1, Len(p) - 1)), Last(p))

RECURSIVE ReverseStrings(_)
ReverseStrings(s) ==
    IF s = <<>> THEN <<>> ELSE Append(ReverseStrings(Tail(s)), Head(s))

\* Faulty variant of ReverseFloats: the slice is returned as it came.
FloatsNotReversed(s) == s

RECURSIVE ReverseFloats(_)
ReverseFloats(s) ==
    IF s = <<>> THEN <<>> ELSE Append(ReverseFloats(Tail(s)), Head(s))

\* The orders in which `for k := range m` may visit the keys S of a map.
RangeOrders(S) ==
    {o \in [1..Cardinality(S) -> S] : \A i, j \in DOMAIN o : i # j => o[i] # o[j]}

\* ---------------------------------------------------------------- inputs
Items == {DayItem(d, c, de, r) : d \in Dates, c \in Values, de \in Values, r \in Values}

\* A country's array as the feed publishes it: one record per day, oldest
\* first.
NoRecord   == {<<>>}
OneRecord  == {<<a>> : a \in Items}
TwoRecords == {s \in {<<a, b>> : a \in Items, b \in Items} : s[1].Date < s[2].Date}

\* Series that differ only in the confirmed counts, on the days 1, 2.
ConfirmedOnlySeries ==
    {s \in OneRecord \cup TwoRecords :
        \A i \in DOMAIN s : s[i].Date = i /\ s[i].Deaths = 0 /\ s[i].Recovered = 0}

\* The top-level object as the sequence of its members, in name order.
RECURSIVE Members(_, _)
Members(f, S) ==
    IF S = {} THEN <<>>
    ELSE LET k == CHOOSE x \in S : \A y \in S : x = y \/ StringLess(x, y)
         IN  <<[key |-> k, items |-> f[k]]>> \o Members(f, S \ {k})

\* The bodies: the empty object; one country ("a") with up to two records;
\* two countries ("a", "b") with at most one record each; three countries
\* with confirmed-only series.
OneName  == {<<1>>}
TwoNames == {<<1>>, <<3>>}

ObjectBodies ==
    {<<>>}
    \cup {Members(f, OneName) : f \in [OneName -> NoRecord \cup OneRecord \cup TwoRecords]}
    \cup {Members(f, TwoNames) : f \in [TwoNames -> NoRecord \cup OneRecord]}
    \cup {Members(f, Names) : f \in [Names -> ConfirmedOnlySeries]}

\* What the GET can deliver: no response at all, a body whose top level is
\* an array, or a body whose top level is an object.
Responses ==
    {[kind |-> "neterr", members |-> <<>>], [kind |-> "array", members |-> <<>>]}
    \cup {[kind |-> "object", members |-> m] : m \in ObjectBodies}

Countries == Names \cup {ALL}
Maxes     == 0..MaxMax

\* -------------------------------------------------------------- FetchData
\* jsonparser.ObjectEach with the callback of FetchData: a body that does not
\* open with '{' is refused before the callback runs; otherwise every member
\* is stored under its key, a later member of the same key replacing an
\* earlier one, an empty array stored as an empty series.
RECURSIVE StoreEach(_, _)
StoreEach(m, members) ==
    IF members = <<>> THEN m
    ELSE LET e == Head(members)
         IN  StoreEach([c \in (DOMAIN m) \cup {e.key} |->
                            IF c = e.key THEN e.items ELSE m[c]],
                       Tail(members))

\* Faulty variant of ObjectEach: a top-level array is walked like an object with no
\* member and no error is reported.
ObjectEachLenient(data) ==
    IF data.kind = "object"
    THEN [err |-> "nil", values |-> StoreEach(EmptyMap, data.members)]
    ELSE [err |-> "nil", values |-> EmptyMap]

ObjectEach(data) ==
    IF data.kind = "object"
    THEN [err |-> "nil", values |-> StoreEach(EmptyMap, data.members)]
    ELSE [err |-> "MalformedObjectError", values |-> EmptyMap]

\* Faulty variant of BuildNameSorted: the names stay in range order (no sort).
NamesAsRanged(values, order) == order

\* for k := range AllValues { append } ; sort.Strings
BuildNameSorted(values, order) == SortStrings(order)

\* for c, v := range AllValues { append Pair{c, v[len(v)-1].Confirmed} }:
\* v[len(v)-1] panics on the first empty series the range reaches; the pairs
\* appended before it stay in the slice.
FirstEmpty(values, order) ==
    IF \E i \in DOMAIN order : values[order[i]] = <<>>
    THEN CHOOSE i \in DOMAIN order :
            /\ values[order[i]] = <<>>
            /\ \A j \in 1..(i - 1) : values[order[j]] # <<>>
    ELSE Len(order) + 1

AppendPairs(values, order) ==
    [i \in 1..(FirstEmpty(values, order) - 1) |->
        Pair(order[i], Last(values[order[i]]).Confirmed)]

\* FetchData(false) as a function of the response and of the two range
\* orders: the three package variables it leaves and what it returns.
FetchData(data, nameOrder, valueOrder) ==
    IF data.kind = "neterr"
    THEN [err |-> "fetch error", AllValues |-> EmptyMap,
          NameSortedCountries |-> <<>>, ValueSortedCountries |-> <<>>]
    ELSE LET dec    == ObjectEach(data)
             values == dec.values
             names  == BuildNameSorted(values, nameOrder)
             pairs  == AppendPairs(values, valueOrder)
         IN  IF FirstEmpty(values, valueOrder) <= Len(valueOrder)
             THEN [err |-> "panic", AllValues |-> values,
                   NameSortedCountries |-> names, ValueSortedCountries |-> pairs]
             ELSE [err |-> dec.err, AllValues |-> values,
                   NameSortedCountries |-> names,
                   ValueSortedCountries |-> SortPairs(pairs)]

\* The range orders FetchData may meet on a response.
FetchOrders(data) ==
    IF data.kind = "object"
    THEN RangeOrders(DOMAIN ObjectEach(data).values)
    ELSE {<<>>}

\* ------------------------------------------------------------------ Init
NoCmd == [op |-> "none", country |-> <<>>, max |-> 0]

Init ==
    /\ raw \in Responses
    /\ pc = "start"
    /\ cmd = NoCmd
    /\ AllValues = EmptyMap
    /\ NameSortedCountries = <<>>
    /\ ValueSortedCountries = <<>>
    /\ err = "none"
    /\ tempFile = <<>>
    /\ summaryRows = <<>>
    /\ tableRows = <<>>
    /\ labels = <<>> /\ cData = <<>> /\ dData = <<>> /\ rData = <<>>
    /\ plotData = <<>>

NoOutput ==
    UNCHANGED <<summaryRows, tableRows, labels, cData, dData, rData, plotData>>

\* FetchData(false), called first by PrintSummary, PrintCountry,
\* DrawCountryBarChart and DrawCountryLineChart.  A panic ends the process.
CallFetchData ==
    /\ pc = "start"
    /\ \E nameOrder \in FetchOrders(raw), valueOrder \in FetchOrders(raw) :
          LET f == FetchData(raw, nameOrder, valueOrder)
          IN  /\ AllValues' = f.AllValues
              /\ NameSortedCountries' = f.NameSortedCountries
              /\ ValueSortedCountries' = f.ValueSortedCountries
              /\ err' = f.err
              /\ pc' = IF f.err = "panic" THEN "done" ELSE "fetched"
    /\ UNCHANGED <<raw, cmd, tempFile>>
    /\ NoOutput

\* --------------------------------------------------------- command: fetch
\* FetchData(true): the body is written verbatim to the cache file; creating
\* or writing the file may fail.
FetchCommand ==
    /\ pc = "start"
    /\ pc' = "done"
    /\ cmd' = [op |-> "fetch", country |-> <<>>, max |-> 0]
    /\ \E ioOk \in BOOLEAN :
          IF raw.kind = "neterr"
          THEN err' = "fetch error" /\ tempFile' = <<>>
          ELSE IF ioOk
               THEN err' = "nil" /\ tempFile' = <<raw>>
               ELSE err' = "io error" /\ tempFile' = <<>>
    /\ UNCHANGED <<raw, AllValues, NameSortedCountries, ValueSortedCountries>>
    /\ NoOutput

\* ------------------------------------------------------- command: summary
RECURSIVE SumOfMetric(_, _)
SumOfMetric(items, metric) ==
    IF items = <<>> THEN 0 ELSE Head(items)[metric] + SumOfMetric(Tail(items), metric)

\* Faulty variant of SumLatest: every record of a country is added, not only its
\* last one.
RECURSIVE SumEveryRecord(_, _, _)
SumEveryRecord(values, order, acc) ==
    IF order = <<>> THEN acc
    ELSE LET items == values[Head(order)]
             add(metric) == SumOfMetric(items, metric)
         IN  SumEveryRecord(values, Tail(order),
                            [Confirmed |-> acc.Confirmed + add("Confirmed"),
                             Deaths    |-> acc.Deaths + add("Deaths"),
                             Recovered |-> acc.Recovered + add("Recovered")])

\* The loop of PrintSummary over the countries in range order.
RECURSIVE SumLatest(_, _, _)
SumLatest(values, order, acc) ==
    IF order = <<>> THEN acc
    ELSE LET lItem == Last(values[Head(order)])
         IN  SumLatest(values, Tail(order),
                       [Confirmed |-> acc.Confirmed + lItem.Confirmed,
                        Deaths    |-> acc.Deaths + lItem.Deaths,
                        Recovered |-> acc.Recovered + lItem.Recovered])

PrintSummary ==
    /\ pc = "fetched"
    /\ pc' = "done"
    /\ cmd' = [op |-> "summary", country |-> <<>>, max |-> 0]
    /\ IF err # "nil"
       THEN UNCHANGED <<err, summaryRows>>
       ELSE \E order \in RangeOrders(DOMAIN AllValues) :
               /\ err' = "nil"
               /\ summaryRows' =
                     <<SumLatest(AllValues, order,
                         [Confirmed |-> 0, Deaths |-> 0, Recovered |-> 0])>>
    /\ UNCHANGED <<raw, AllValues, NameSortedCountries, ValueSortedCountries,
                   tempFile, tableRows, labels, cData, dData, rData, plotData>>

\* ------------------------------------------- command: summary --country
\* The row PrintCountry appends for a series of at least two records.
DetailRow(country, items) ==
    LET lItem  == items[Len(items)]
        mlItem == items[Len(items) - 1]
    IN  [Country       |-> country,
         Confirmed     |-> lItem.Confirmed,
         Deaths        |-> lItem.Deaths,
         Recovered     |-> lItem.Recovered,
         NewCase       |-> lItem.Confirmed - mlItem.Confirmed,
         NewDeaths     |-> lItem.Deaths - mlItem.Deaths,
         NewRecoveries |-> lItem.Recovered - mlItem.Recovered]

\* items[len(items)-2] is an index out of range when the series has one
\* record: the Go runtime panics.
DeltaPanics(items) == Len(items) - 2 < 0

\* The number of entries the "all" loop visits: it breaks when idx == max.
RowLimit(pairs, max) ==
    IF max >= 0 /\ max < Len(pairs) THEN max ELSE Len(pairs)

\* Faulty variant of CountryRows: the `ok` of the map lookup is not tested, so a
\* missing country is indexed as an empty series.
CountryRowsUnchecked(values, pairs, country, max) ==
    IF country = ALL
    THEN LET n == RowLimit(pairs, max)
         IN  IF \E i \in 1..n : DeltaPanics(values[pairs[i].Key])
             THEN [err |-> "panic", rows |-> <<>>]
             ELSE [err |-> "nil",
                   rows |-> [i \in 1..n |-> DetailRow(pairs[i].Key, values[pairs[i].Key])]]
    ELSE IF country \in DOMAIN values /\ ~DeltaPanics(values[country])
         THEN [err |-> "nil", rows |-> <<DetailRow(country, values[country])>>]
         ELSE [err |-> "panic", rows |-> <<>>]

\* The result of the body of PrintCountry after a successful FetchData:
\* what it returns and the rows t.Render() prints (none when it panics or
\* returns early).
CountryRows(values, pairs, country, max) ==
    IF country = ALL
    THEN LET n == RowLimit(pairs, max)
         IN  IF \E i \in 1..n : DeltaPanics(values[pairs[i].Key])
             THEN [err |-> "panic", rows |-> <<>>]
             ELSE [err |-> "nil",
                   rows |-> [i \in 1..n |-> DetailRow(pairs[i].Key, values[pairs[i].Key])]]
    ELSE IF country \in DOMAIN values
         THEN IF DeltaPanics(values[country])
              THEN [err |-> "panic", rows |-> <<>>]
              ELSE [err |-> "nil", rows |-> <<DetailRow(country, values[country])>>]
         ELSE [err |-> "country not found in dataset", rows |-> <<>>]

PrintCountry(country, max) ==
    /\ pc = "fetched"
    /\ pc' = "done"
    /\ cmd' = [op |-> "country", country |-> country, max |-> max]
    /\ IF err # "nil"
       THEN UNCHANGED <<err, tableRows>>
       ELSE LET res == CountryRows(AllValues, ValueSortedCountries, country, max)
            IN  err' = res.err /\ tableRows' = res.rows
    /\ UNCHANGED <<raw, AllValues, NameSortedCountries, ValueSortedCountries,
                   tempFile, summaryRows, labels, cData, dData, rData, plotData>>

\* ----------------------------------------------------------- chart loops
\* The records the loop `for i := len-1; i >= 0; i--` visits before
\* `j == max` breaks it, newest first.  j starts at 1, so a max below 1
\* never breaks the loop.
Window(countryItem, max) ==
    LET n == IF max >= 1 /\ max < Len(countryItem) THEN max ELSE Len(countryItem)
    IN  [k \in 1..n |-> countryItem[Len(countryItem) + 1 - k]]

\* A Go map[string]float64 read through m[key]: a missing key reads 0.
ZeroMap == [d \in Dates |-> 0]

NewMaps == [cMap |-> ZeroMap, dMap |-> ZeroMap, rMap |-> ZeroMap]

\* The three assignments of the bar chart's inner loop (the third one reads
\* dMap).
AddBar(m, it) ==
    LET c2 == [m.cMap EXCEPT ![it.Date] = m.cMap[it.Date] + it.Confirmed]
        d2 == [m.dMap EXCEPT ![it.Date] = m.dMap[it.Date] + it.Deaths]
        r2 == [m.rMap EXCEPT ![it.Date] = d2[it.Date] + it.Recovered]
    IN  [cMap |-> c2, dMap |-> d2, rMap |-> r2]

\* The three assignments of the line chart's inner loop.
AddLine(m, it) ==
    LET c2 == [m.cMap EXCEPT ![it.Date] = m.cMap[it.Date] + it.Confirmed]
        d2 == [m.dMap EXCEPT ![it.Date] = m.dMap[it.Date] + it.Deaths]
        r2 == [m.rMap EXCEPT ![it.Date] = m.rMap[it.Date] + it.Recovered]
    IN  [cMap |-> c2, dMap |-> d2, rMap |-> r2]

RECURSIVE FoldBar(_, _)
FoldBar(m, items) ==
    IF items = <<>> THEN m ELSE FoldBar(AddBar(m, Head(items)), Tail(items))

RECURSIVE FoldLine(_, _)
FoldLine(m, items) ==
    IF items = <<>> THEN m ELSE FoldLine(AddLine(m, Head(items)), Tail(items))

\* The outer loop `for _, countryItem := range AllValues` in the given range
\* order.
RECURSIVE AllBar(_, _, _, _)
AllBar(m, values, order, max) ==
    IF order = <<>> THEN m
    ELSE AllBar(FoldBar(m, Window(values[Head(order)], max)), values, Tail(order), max)

RECURSIVE AllLine(_, _, _, _)
AllLine(m, values, order, max) ==
    IF order = <<>> THEN m
    ELSE AllLine(FoldLine(m, Window(values[Head(order)], max)), values, Tail(order), max)

\* The range orders the "all" branch may meet; the other branch has no range.
ChartOrders(values, country) ==
    IF country = ALL THEN RangeOrders(DOMAIN values) ELSE {<<>>}

\* Labels are appended only while index == 0, that is for the country the
\* range visits first.
AllLabels(values, order, max) ==
    IF order = <<>> THEN <<>>
    ELSE LET w == Window(values[order[1]], max)
         IN  [k \in 1..Len(w) |-> w[k].Date]

\* ---------------------------------------------------- command: chart bar
\* The series DrawCountryBarChart hands to its three widgets.
BarSeries(values, order, country, max) ==
    IF country = ALL
    THEN LET m  == AllBar(NewMaps, values, order, max)
             ls == AllLabels(values, order, max)
         IN  [err    |-> "nil",
              labels |-> ReverseStrings(ls),
              cData  |-> ReverseFloats([k \in 1..Len(ls) |-> m.cMap[ls[k]]]),
              dData  |-> ReverseFloats([k \in 1..Len(ls) |-> m.dMap[ls[k]]]),
              rData  |-> ReverseFloats([k \in 1..Len(ls) |-> m.rMap[ls[k]]])]
    ELSE IF country \in DOMAIN values
         THEN LET w == Window(values[country], max)
              IN  [err    |-> "nil",
                   labels |-> ReverseStrings([k \in 1..Len(w) |-> w[k].Date]),
                   cData  |-> ReverseFloats([k \in 1..Len(w) |-> w[k].Confirmed]),
                   dData  |-> ReverseFloats([k \in 1..Len(w) |-> w[k].Deaths]),
                   rData  |-> ReverseFloats([k \in 1..Len(w) |-> w[k].Recovered])]
         ELSE [err |-> "country not found in dataset",
               labels |-> <<>>, cData |-> <<>>, dData |-> <<>>, rData |-> <<>>]

DrawCountryBarChart(country, max) ==
    /\ pc = "fetched"
    /\ pc' = "done"
    /\ cmd' = [op |-> "bar", country |-> country, max |-> max]
    /\ IF err # "nil"
       THEN UNCHANGED <<err, labels, cData, dData, rData>>
       ELSE \E order \in ChartOrders(AllValues, country) :
               LET res == BarSeries(AllValues, order, country, max)
               IN  /\ err' = res.err
                   /\ labels' = res.labels
                   /\ cData' = res.cData
                   /\ dData' = res.dData
                   /\ rData' = res.rData
    /\ UNCHANGED <<raw, AllValues, NameSortedCountries, ValueSortedCountries,
                   tempFile, summaryRows, tableRows, plotData>>

\* --------------------------------------------------- command: chart line
\* plotChart.Data as DrawCountryLineChart leaves it; the labels of the
\* "all" branch are a local that only selects the dates.
LineSeries(values, order, country, max) ==
    IF country = ALL
    THEN LET m  == AllLine(NewMaps, values, order, max)
             ls == AllLabels(values, order, max)
         IN  [err  |-> "nil",
              data |-> <<ReverseFloats([k \in 1..Len(ls) |-> m.cMap[ls[k]]]),
                         ReverseFloats([k \in 1..Len(ls) |-> m.dMap[ls[k]]]),
                         ReverseFloats([k \in 1..Len(ls) |-> m.rMap[ls[k]]])>>]
    ELSE IF country \in DOMAIN values
         THEN LET w == Window(values[country], max)
              IN  [err  |-> "nil",
                   data |-> <<ReverseFloats([k \in 1..Len(w) |-> w[k].Confirmed]),
                              ReverseFloats([k \in 1..Len(w) |-> w[k].Deaths]),
                              ReverseFloats([k \in 1..Len(w) |-> w[k].Recovered])>>]
         ELSE [err |-> "country not found in dataset", data |-> <<>>]

DrawCountryLineChart(country, max) ==
    /\ pc = "fetched"
    /\ pc' = "done"
    /\ cmd' = [op |-> "line", country |-> country, max |-> max]
    /\ IF err # "nil"
       THEN UNCHANGED <<err, plotData>>
       ELSE \E order \in ChartOrders(AllValues, country) :
               LET res == LineSeries(AllValues, order, country, max)
               IN  err' = res.err /\ plotData' = res.data
    /\ UNCHANGED <<raw, AllValues, NameSortedCountries, ValueSortedCountries,
                   tempFile, summaryRows, tableRows, labels, cData, dData, rData>>

Next ==
    \/ FetchCommand
    \/ CallFetchData
    \/ PrintSummary
    \/ \E country \in Countries, max \in Maxes : PrintCountry(country, max)
    \/ \E country \in Countries, max \in Maxes : DrawCountryBarChart(country, max)
    \/ \E country \in Countries, max \in Maxes : DrawCountryLineChart(country, max)

Spec == Init /\ [][Next]_vars


\* ======================================================================
\* Properties.  The expected values below are stated from the records of
\* AllValues directly, without the loops of the commands.
\* ======================================================================
RECURSIVE SumOver(_, _)
SumOver(f, S) ==
    IF S = {} THEN 0
    ELSE LET x == CHOOSE y \in S : TRUE IN f[x] + SumOver(f, S \ {x})

Min(a, b) == IF a <= b THEN a ELSE b

Ran(op) == pc = "done" /\ cmd.op = op

\* FetchData(false) has returned: the dataset is decoded and both indexes
\* are built.
IndexesBuilt ==
    \/ pc = "fetched"
    \/ pc = "done" /\ cmd.op \in {"summary", "country", "bar", "line"}

\* The positions of the last max records of a series.
LastIdx(s, max) == {i \in 1..Len(s) : i > Len(s) - max}

\* The dates inside the last max records of at least one country.
WindowDates(max) ==
    UNION {{AllValues[c][i].Date : i \in LastIdx(AllValues[c], max)} : c \in DOMAIN AllValues}

\* The sum of a metric over the countries that have date d inside their last
\* max records.
DateSum(d, max, metric) ==
    SumOver([c \in DOMAIN AllValues |->
                SumOver([i \in LastIdx(AllValues[c], max) |->
                            IF AllValues[c][i].Date = d THEN AllValues[c][i][metric] ELSE 0],
                        LastIdx(AllValues[c], max))],
            DOMAIN AllValues)

AllView(op) == Ran(op) /\ err = "nil" /\ cmd.country = ALL /\ cmd.max >= 1

\* The dates the line chart of "all" plots: it keeps no labels, its points
\* are those of the window of one country of the dataset, oldest first.
LinePointsOf(c) ==
    LET s == AllValues[c]
        k == Min(cmd.max, Len(s))
    IN  [i \in 1..k |-> s[Len(s) - k + i].Date]

\* C1: in the "all" windowed view the recovered value of every output date
\* is the sum of `recovered` over the countries that have that date inside
\* their last max records, for the bar chart and for the line chart.
C1_RecoveredIsIndependentSum ==
    /\ AllView("bar") =>
          \A k \in DOMAIN labels : rData[k] = DateSum(labels[k], cmd.max, "Recovered")
    /\ AllView("line") /\ DOMAIN AllValues # {} =>
          \E c \in DOMAIN AllValues :
             plotData[3] = [i \in DOMAIN LinePointsOf(c) |->
                               DateSum(LinePointsOf(c)[i], cmd.max, "Recovered")]

\* C2: in the "all" windowed view every date inside the last max records of
\* at least one country appears exactly once in the output, with the
\* confirmed and deaths sums over the countries that have it, whatever the
\* range order of the map.
C2_EveryWindowDateOnce ==
    /\ AllView("bar") =>
          /\ {labels[k] : k \in DOMAIN labels} = WindowDates(cmd.max)
          /\ Len(labels) = Cardinality(WindowDates(cmd.max))
          /\ \A k \in DOMAIN labels :
                /\ cData[k] = DateSum(labels[k], cmd.max, "Confirmed")
                /\ dData[k] = DateSum(labels[k], cmd.max, "Deaths")
    /\ AllView("line") =>
          \A n \in 1..3 : Len(plotData[n]) = Cardinality(WindowDates(cmd.max))

\* The countries whose delta PrintCountry computes: the named one, or the
\* first max entries of the ranking.
DeltaCountries ==
    IF cmd.country = ALL
    THEN {ValueSortedCountries[i].Key :
             i \in 1..RowLimit(ValueSortedCountries, cmd.max)}
    ELSE {cmd.country} \cap DOMAIN AllValues

\* C3: the day-over-day delta of a country with exactly one record fails
\* with InsufficientHistoryError and the process does not crash; with two or
\* more records it is the difference of the last two records.
C3_DeltaErrorOrDifference ==
    Ran("country") /\ raw.kind = "object" =>
       /\ err # "panic"
       /\ (\E c \in DeltaCountries : Len(AllValues[c]) = 1)
             => err = "InsufficientHistoryError"
       /\ (DeltaCountries # {} /\ \A c \in DeltaCountries : Len(AllValues[c]) >= 2)
             => /\ err = "nil"
                /\ {r.Country : r \in {tableRows[i] : i \in DOMAIN tableRows}} = DeltaCountries
                /\ \A i \in DOMAIN tableRows :
                      LET s == AllValues[tableRows[i].Country]
                      IN  /\ tableRows[i].NewCase
                               = s[Len(s)].Confirmed - s[Len(s) - 1].Confirmed
                          /\ tableRows[i].NewDeaths
                               = s[Len(s)].Deaths - s[Len(s) - 1].Deaths
                          /\ tableRows[i].NewRecoveries
                               = s[Len(s)].Recovered - s[Len(s) - 1].Recovered

\* C4: once the indexes are built ValueSortedCountries has exactly one entry
\* per country of the dataset, each with the confirmed count of the last
\* record of that country, in non-increasing order of count.
C4_RankIndexSorted ==
    IndexesBuilt =>
       /\ Len(ValueSortedCountries) = Cardinality(DOMAIN AllValues)
       /\ {ValueSortedCountries[i].Key : i \in DOMAIN ValueSortedCountries}
             = DOMAIN AllValues
       /\ \A i \in DOMAIN ValueSortedCountries :
             LET s == AllValues[ValueSortedCountries[i].Key]
             IN  ValueSortedCountries[i].Value = s[Len(s)].Confirmed
       /\ \A i, j \in DOMAIN ValueSortedCountries :
             i < j => ValueSortedCountries[i].Value >= ValueSortedCountries[j].Value

C4_Witness ==
    /\ IndexesBuilt
    /\ Len(ValueSortedCountries) = 3
    /\ ValueSortedCountries[1].Value > ValueSortedCountries[3].Value
    /\ ValueSortedCountries[2].Value = ValueSortedCountries[3].Value
    /\ StringLess(ValueSortedCountries[3].Key, ValueSortedCountries[2].Key)

\* Byte-wise order of two strings, stated by the first position where they
\* differ.
LexBefore(a, b) ==
    \E i \in 1..(Len(b)) :
       /\ \A j \in 1..(i - 1) : j <= Len(a) /\ a[j] = b[j]
       /\ i > Len(a) \/ a[i] < b[i]

\* C5: once the indexes are built NameSortedCountries is strictly ascending
\* and holds exactly the keys of the dataset, each once.
C5_NameIndexSorted ==
    IndexesBuilt =>
       /\ \A i, j \in DOMAIN NameSortedCountries :
             i < j => LexBefore(NameSortedCountries[i], NameSortedCountries[j])
       /\ {NameSortedCountries[i] : i \in DOMAIN NameSortedCountries} = DOMAIN AllValues
       /\ Len(NameSortedCountries) = Cardinality(DOMAIN AllValues)

C5_Witness ==
    /\ IndexesBuilt
    /\ NameSortedCountries = <<(<<1>>), (<<1, 1>>), (<<3>>)>>

\* C6: summary() is, for each metric, the sum over every country of the
\* dataset of that metric in the last record of the country.
C6_SummaryIsSumOfLatest ==
    Ran("summary") /\ err = "nil" =>
       /\ Len(summaryRows) = 1
       /\ \A metric \in {"Confirmed", "Deaths", "Recovered"} :
             summaryRows[1][metric] =
                SumOver([c \in DOMAIN AllValues |-> AllValues[c][Len(AllValues[c])][metric]],
                        DOMAIN AllValues)

C6_Witness ==
    /\ Ran("summary") /\ err = "nil"
    /\ DOMAIN AllValues = Names
    /\ \A c \in DOMAIN AllValues : Len(AllValues[c]) = 2
    /\ \E c \in DOMAIN AllValues :
          AllValues[c][1].Confirmed = 1 /\ AllValues[c][2].Confirmed = 0
    /\ summaryRows[1].Confirmed = 2

\* C7: a query for a country other than "all" that is no key of the dataset
\* returns the country-not-found error, produces no rows and no series, and
\* leaves the dataset and both indexes as FetchData built them.
C7_UnknownCountryFails ==
    [][ ( /\ pc = "fetched" /\ err = "nil" /\ pc' = "done"
          /\ cmd'.op \in {"country", "bar", "line"}
          /\ cmd'.country # ALL
          /\ cmd'.country \notin DOMAIN AllValues )
        => ( /\ err' = "country not found in dataset"
             /\ tableRows' = <<>>
             /\ labels' = <<>> /\ cData' = <<>> /\ dData' = <<>> /\ rData' = <<>>
             /\ plotData' = <<>>
             /\ AllValues' = AllValues
             /\ NameSortedCountries' = NameSortedCountries
             /\ ValueSortedCountries' = ValueSortedCountries ) ]_vars

C7_Witness ==
    /\ pc = "done" /\ cmd.op = "bar"
    /\ err = "country not found in dataset"
    /\ cmd.country = <<1, 1>>
    /\ DOMAIN AllValues = {<<1>>, <<3>>}

\* The last min(max, len) records of a series, oldest first.
LastRecords(s, max) ==
    LET k == Min(max, Len(s)) IN [i \in 1..k |-> s[Len(s) - k + i]]

NamedView(op) ==
    /\ Ran(op) /\ raw.kind = "object"
    /\ cmd.country \in DOMAIN AllValues
    /\ cmd.max >= 1

\* C8: windowedSeries(name, max) for a country of the dataset and max >= 1 is
\* the last min(max, len) records of its series, oldest first, labels and
\* values aligned; for "all" the output dates ascend.
C8_WindowIsLastRecordsInOrder ==
    /\ NamedView("bar") =>
          LET w == LastRecords(AllValues[cmd.country], cmd.max)
          IN  /\ err = "nil"
              /\ labels = [i \in DOMAIN w |-> w[i].Date]
              /\ cData = [i \in DOMAIN w |-> w[i].Confirmed]
              /\ dData = [i \in DOMAIN w |-> w[i].Deaths]
              /\ rData = [i \in DOMAIN w |-> w[i].Recovered]
    /\ NamedView("line") =>
          LET w == LastRecords(AllValues[cmd.country], cmd.max)
          IN  /\ err = "nil"
              /\ plotData = << [i \in DOMAIN w |-> w[i].Confirmed],
                               [i \in DOMAIN w |-> w[i].Deaths],
                               [i \in DOMAIN w |-> w[i].Recovered] >>
    /\ AllView("bar") =>
          /\ \A i, j \in DOMAIN labels : i < j => labels[i] < labels[j]
          /\ Len(cData) = Len(labels) /\ Len(dData) = Len(labels)
          /\ Len(rData) = Len(labels)

C8_Witness ==
    /\ NamedView("bar")
    /\ cmd.max = 2
    /\ labels = <<1, 2>>
    /\ cData = <<1, 0>> /\ dData = <<0, 1>> /\ rData = <<0, 1>>

\* C9: after decoding every country of the dataset has a non-empty series,
\* so neither the ranking nor the summary indexes an empty series.
C9_NoEmptySeries ==
    pc # "start" /\ cmd.op # "fetch" =>
       /\ \A c \in DOMAIN AllValues : AllValues[c] # <<>>
       /\ cmd.op \in {"none", "summary"} => err # "panic"

\* C10: a body whose top level is a JSON array makes FetchData(false) return
\* an error with the dataset left empty, and the command returns that error
\* without producing anything.
C10_TopLevelArrayFails ==
    raw.kind = "array" /\ pc # "start" /\ cmd.op # "fetch" =>
       /\ err = "MalformedObjectError"
       /\ AllValues = EmptyMap
       /\ NameSortedCountries = <<>> /\ ValueSortedCountries = <<>>
       /\ summaryRows = <<>> /\ tableRows = <<>>
       /\ labels = <<>> /\ cData = <<>> /\ dData = <<>> /\ rData = <<>>
       /\ plotData = <<>>

C10_Witness ==
    /\ raw.kind = "array"
    /\ Ran("summary")
    /\ err = "MalformedObjectError"

====
